---------------------------- MODULE Spec2Model ----------------------------
(***************************************************************************)
(* Model of Program2.py: a tick-driven simulator of contiguous memory      *)
(* allocation under First Fit, Next Fit, Best Fit and Worst Fit.           *)
(*                                                                         *)
(* A free list is a sequence of <<start, length>> tuples, as in the        *)
(* source.  List positions are 0-based as in the source; At(fl, i) reads   *)
(* position i.  The value -1 stands for the source's -1 / None.            *)
(***************************************************************************)
EXTENDS Integers, Sequences, FiniteSets, TLC

(***************************************************************************)
(* Inputs of the run and bounds of the model.                              *)
(***************************************************************************)
\* number of memory units of the simulated memory (input of main)
total_units == 6
\* bytes per memory unit (input of main)
unit_size == 2
\* largest byte request the allocator harness issues
MaxRequest == 7
\* largest Next Fit cursor value the allocator harness starts from
MaxCursor == 3
\* number of malloc calls one harness run issues
MaxCalls == 2

\* ticks one run simulates (the source runs 12000)
total_time == 6
\* every LostEvery-th job of a type is a lost-object job (the source: 100th)
LostEvery == 1
\* the modelled random generator: the seed fixes SeedLen raw values in
\* 0..RawMax, which the generator yields in turn, over and over
SeedLen == 7
RawMax == 2
\* ticks the arrival schedule is followed for
ScheduleTime == 30

Algorithms == {"FF", "NF", "BF", "WF"}

VARIABLES
    algorithm_name,      \* the policy of the run
    lost_mode,           \* TRUE when lost objects mode is "y"
    sim_time,
    pc,                  \* the phase of the tick the loop stands before
    free_list,           \* list of <<start, length>>
    allocated_units,
    required_bytes_sum,
    lost_count,
    lost_bytes,
    max_allocated_units,
    alloc_fail_count,
    stats,               \* operation counters
    jobs,                \* the Job objects of the jobs in the system, by id
    ready_queue,         \* job ids
    active_jobs,         \* job ids
    current_job,         \* job id, 0 for None
    cpu_idle,
    io_queue,            \* job ids
    io_idle,
    io_job,              \* job id, 0 for None
    io_done_time,
    job_type_counts,
    job_id_counter,
    base_arrival,
    next_arrival,
    next_fit_index,      \* Next Fit pointer
    heap_k,              \* the loop variable k of the heap allocation loop
    leaked,              \* history: units a rejected arrival took and kept
    leaked_code,         \* history: those of them taken for the code
    clamp_hit,           \* history: a clamp of required_bytes_sum took effect
    nf_probe,            \* history: how the mallocNF calls read the free list
    call,                \* harness: the last allocator call, its inputs and result
    held,                \* harness: the blocks allocated and not yet freed
    hphase,              \* harness: where the harness run stands
    rng_seed,            \* main: the raw values the seed of random fixes
    rng_pos,             \* main: the number of draws made since random.seed
    requests,            \* main: the allocation requests of this simulate
    request_logs         \* main: the requests of the finished simulates

allocvars == <<algorithm_name, free_list, stats, next_fit_index>>
harnessvars == <<call, held, hphase>>
acctvars ==
    <<allocated_units, required_bytes_sum, lost_count, lost_bytes,
      max_allocated_units, alloc_fail_count, leaked, leaked_code,
      clamp_hit, nf_probe>>
schedvars ==
    <<jobs, ready_queue, active_jobs, current_job, cpu_idle, io_queue,
      io_idle, io_job, io_done_time>>
arrivalvars == <<job_type_counts, job_id_counter, base_arrival, next_arrival>>
seedvars == <<rng_seed, rng_pos, requests, request_logs>>
simvars ==
    <<lost_mode, sim_time, pc, acctvars, schedvars, arrivalvars, heap_k,
      seedvars>>
vars == <<allocvars, simvars, harnessvars>>

(***************************************************************************)
(* Helper functions                                                        *)
(***************************************************************************)
At(fl, i) == fl[i + 1]

RemoveAt(fl, i) == SubSeq(fl, 1, i) \o SubSeq(fl, i + 2, Len(fl))

round_up_units_floor(bytes_needed, us) ==
    IF bytes_needed <= 0 THEN 0 ELSE bytes_needed \div us

round_up_units(bytes_needed, us) ==
    IF bytes_needed <= 0 THEN 0
    ELSE IF bytes_needed % us = 0 THEN bytes_needed \div us
    ELSE (bytes_needed \div us) + 1

init_free_list(tu) == << <<0, tu>> >>

stats0 ==
    [ops_malloc |-> 0, ops_free |-> 0, alloc_calls |-> 0,
     free_calls |-> 0, alloc_fail |-> 0]

\* the block at position i gives up its first units_needed units: it shrinks
\* from the front, or leaves the list when nothing is left of it
TakeFromBack(fl, i, units_needed) ==
    LET start == At(fl, i)[1]
        length == At(fl, i)[2]
        new_length == length - units_needed
    IN  IF new_length > 0
        THEN [fl EXCEPT ![i + 1] = <<start, new_length>>]
        ELSE RemoveAt(fl, i)

Take(fl, i, units_needed) ==
    LET start == At(fl, i)[1]
        length == At(fl, i)[2]
        new_length == length - units_needed
    IN  IF new_length > 0
        THEN [fl EXCEPT ![i + 1] = <<start + units_needed, new_length>>]
        ELSE RemoveAt(fl, i)

(***************************************************************************)
(* mallocFF                                                                *)
(***************************************************************************)
RECURSIVE ScanFFLast(_, _, _)
ScanFFLast(fl, units_needed, i) ==
    IF i >= Len(fl) THEN -1
    ELSE LET rest == ScanFFLast(fl, units_needed, i + 1)
         IN  IF rest # -1 THEN rest
             ELSE IF At(fl, i)[2] >= units_needed THEN i ELSE -1

\* the loop of mallocFF from position i on: the first position whose block
\* is long enough, -1 when the loop runs off the list
RECURSIVE ScanFF(_, _, _)
ScanFF(fl, units_needed, i) ==
    IF i >= Len(fl) THEN -1
    ELSE IF At(fl, i)[2] >= units_needed THEN i
    ELSE ScanFF(fl, units_needed, i + 1)

mallocFF(bytes_needed, us, fl, st) ==
    LET units_needed == round_up_units(bytes_needed, us)
        st1 == [st EXCEPT !.alloc_calls = @ + 1]
        i == ScanFF(fl, units_needed, 0)
    IN  IF units_needed = 0
        THEN [loc |-> -1, free_list |-> fl, stats |-> st]
        ELSE IF i # -1
        THEN [loc |-> At(fl, i)[1],
              free_list |-> Take(fl, i, units_needed),
              stats |-> [st1 EXCEPT !.ops_malloc = @ + i + 1]]
        ELSE [loc |-> -1, free_list |-> fl,
              stats |-> [st1 EXCEPT !.ops_malloc = @ + Len(fl),
                                    !.alloc_fail = @ + 1]]

(***************************************************************************)
(* mallocNF                                                                *)
(***************************************************************************)
RECURSIVE ScanNFStrict(_, _, _, _)
ScanNFStrict(fl, units_needed, last_index, j) ==
    IF j >= Len(fl) THEN -1
    ELSE IF At(fl, (last_index + j) % Len(fl))[2] > units_needed THEN j
    ELSE ScanNFStrict(fl, units_needed, last_index, j + 1)

RECURSIVE ScanNFFromNext(_, _, _, _)
ScanNFFromNext(fl, units_needed, last_index, j) ==
    IF j >= Len(fl) THEN -1
    ELSE IF At(fl, (last_index + 1 + j) % Len(fl))[2] >= units_needed THEN j
    ELSE ScanNFFromNext(fl, units_needed, last_index, j + 1)

\* the loop of mallocNF from probe j on: the first probe j whose block
\* (last_index + j) % n is long enough, -1 when all n probes fail
RECURSIVE ScanNF(_, _, _, _)
ScanNF(fl, units_needed, last_index, j) ==
    IF j >= Len(fl) THEN -1
    ELSE IF At(fl, (last_index + j) % Len(fl))[2] >= units_needed THEN j
    ELSE ScanNF(fl, units_needed, last_index, j + 1)

RECURSIVE NFReadsNoWrap(_, _, _, _)
NFReadsNoWrap(fl, units_needed, last_index, j) ==
    IF j >= Len(fl) THEN <<>>
    ELSE LET i == last_index + j
         IN  IF i < Len(fl) /\ At(fl, i)[2] >= units_needed THEN <<i>>
             ELSE <<i>> \o NFReadsNoWrap(fl, units_needed, last_index, j + 1)

\* the positions of the list the loop of mallocNF reads from probe j on, in
\* the order in which it reads them
RECURSIVE NFReads(_, _, _, _)
NFReads(fl, units_needed, last_index, j) ==
    IF j >= Len(fl) THEN <<>>
    ELSE LET i == (last_index + j) % Len(fl)
         IN  IF At(fl, i)[2] >= units_needed THEN <<i>>
             ELSE <<i>> \o NFReads(fl, units_needed, last_index, j + 1)

\* what one call of malloc adds to the history of the mallocNF calls: the
\* call was entered with the cursor at or past the end of a list that is
\* not empty (past_end), it read a position that is not in the list or
\* more positions than the list has (bad)
NFNoted(note, alg, bytes_needed, us, fl, last_index) ==
    LET units_needed == round_up_units(bytes_needed, us)
        reads == NFReads(fl, units_needed, last_index, 0)
    IN  IF alg # "NF" \/ units_needed = 0 \/ Len(fl) = 0 THEN note
        ELSE [past_end |-> note.past_end \/ last_index >= Len(fl),
              bad |-> \/ note.bad
                      \/ Len(reads) > Len(fl)
                      \/ \E k \in 1..Len(reads) :
                            reads[k] < 0 \/ reads[k] >= Len(fl)]

NFCursorKept(i, last_index) == last_index

\* the cursor mallocNF returns after it has removed the block at position i
NFCursorAfterPop(i, last_index) ==
    IF i < last_index /\ last_index > 0 THEN last_index - 1 ELSE last_index

mallocNF(bytes_needed, us, fl, st, last_index) ==
    LET units_needed == round_up_units(bytes_needed, us)
        st1 == [st EXCEPT !.alloc_calls = @ + 1]
        n == Len(fl)
        j == ScanNF(fl, units_needed, last_index, 0)
        i == (last_index + j) % n
    IN  IF units_needed = 0
        THEN [loc |-> -1, free_list |-> fl, stats |-> st,
              last_index |-> last_index]
        ELSE IF n = 0
        THEN [loc |-> -1, free_list |-> fl,
              stats |-> [st1 EXCEPT !.alloc_fail = @ + 1],
              last_index |-> last_index]
        ELSE IF j # -1
        THEN [loc |-> At(fl, i)[1],
              free_list |-> Take(fl, i, units_needed),
              stats |-> [st1 EXCEPT !.ops_malloc = @ + j + 1],
              last_index |-> IF At(fl, i)[2] - units_needed > 0
                             THEN i
                             ELSE NFCursorAfterPop(i, last_index)]
        ELSE [loc |-> -1, free_list |-> fl,
              stats |-> [st1 EXCEPT !.ops_malloc = @ + n,
                                    !.alloc_fail = @ + 1],
              last_index |-> last_index]

(***************************************************************************)
(* mallocBF                                                                *)
(***************************************************************************)
RECURSIVE ScanBFLastTie(_, _, _, _, _)
ScanBFLastTie(fl, units_needed, i, best_index, best_size) ==
    IF i >= Len(fl) THEN best_index
    ELSE IF At(fl, i)[2] >= units_needed
            /\ (best_size = -1 \/ At(fl, i)[2] <= best_size)
    THEN ScanBFLastTie(fl, units_needed, i + 1, i, At(fl, i)[2])
    ELSE ScanBFLastTie(fl, units_needed, i + 1, best_index, best_size)

\* the loop of mallocBF from position i on, with the best block so far
\* (best_size = -1 is the source's None); its value is the final best_index
RECURSIVE ScanBF(_, _, _, _, _)
ScanBF(fl, units_needed, i, best_index, best_size) ==
    IF i >= Len(fl) THEN best_index
    ELSE IF At(fl, i)[2] >= units_needed
            /\ (best_size = -1 \/ At(fl, i)[2] < best_size)
    THEN ScanBF(fl, units_needed, i + 1, i, At(fl, i)[2])
    ELSE ScanBF(fl, units_needed, i + 1, best_index, best_size)

mallocBF(bytes_needed, us, fl, st) ==
    LET units_needed == round_up_units(bytes_needed, us)
        st1 == [st EXCEPT !.alloc_calls = @ + 1,
                          !.ops_malloc = @ + Len(fl)]
        best_index == ScanBF(fl, units_needed, 0, -1, -1)
    IN  IF units_needed = 0
        THEN [loc |-> -1, free_list |-> fl, stats |-> st]
        ELSE IF best_index = -1
        THEN [loc |-> -1, free_list |-> fl,
              stats |-> [st1 EXCEPT !.alloc_fail = @ + 1]]
        ELSE [loc |-> At(fl, best_index)[1],
              free_list |-> Take(fl, best_index, units_needed),
              stats |-> st1]

(***************************************************************************)
(* mallocWF                                                                *)
(***************************************************************************)
RECURSIVE ScanWFLastTie(_, _, _, _, _)
ScanWFLastTie(fl, units_needed, i, worst_index, worst_size) ==
    IF i >= Len(fl) THEN worst_index
    ELSE IF At(fl, i)[2] >= units_needed /\ At(fl, i)[2] >= worst_size
    THEN ScanWFLastTie(fl, units_needed, i + 1, i, At(fl, i)[2])
    ELSE ScanWFLastTie(fl, units_needed, i + 1, worst_index, worst_size)

\* the loop of mallocWF from position i on, with the worst block so far;
\* its value is the final worst_index
RECURSIVE ScanWF(_, _, _, _, _)
ScanWF(fl, units_needed, i, worst_index, worst_size) ==
    IF i >= Len(fl) THEN worst_index
    ELSE IF At(fl, i)[2] >= units_needed /\ At(fl, i)[2] > worst_size
    THEN ScanWF(fl, units_needed, i + 1, i, At(fl, i)[2])
    ELSE ScanWF(fl, units_needed, i + 1, worst_index, worst_size)

mallocWF(bytes_needed, us, fl, st) ==
    LET units_needed == round_up_units(bytes_needed, us)
        st1 == [st EXCEPT !.alloc_calls = @ + 1,
                          !.ops_malloc = @ + Len(fl)]
        worst_index == ScanWF(fl, units_needed, 0, -1, -1)
    IN  IF units_needed = 0
        THEN [loc |-> -1, free_list |-> fl, stats |-> st]
        ELSE IF worst_index = -1
        THEN [loc |-> -1, free_list |-> fl,
              stats |-> [st1 EXCEPT !.alloc_fail = @ + 1]]
        ELSE [loc |-> At(fl, worst_index)[1],
              free_list |-> Take(fl, worst_index, units_needed),
              stats |-> st1]

\* the dispatch on algorithm_name that simulate makes at each allocation;
\* the cursor is passed and returned for Next Fit only
Malloc(alg, bytes_needed, us, fl, st, last_index) ==
    IF alg = "NF" THEN mallocNF(bytes_needed, us, fl, st, last_index)
    ELSE LET r == IF alg = "FF" THEN mallocFF(bytes_needed, us, fl, st)
                  ELSE IF alg = "BF" THEN mallocBF(bytes_needed, us, fl, st)
                  ELSE mallocWF(bytes_needed, us, fl, st)
         IN  [loc |-> r.loc, free_list |-> r.free_list, stats |-> r.stats,
              last_index |-> last_index]

(***************************************************************************)
(* free_block                                                              *)
(***************************************************************************)
\* blk put into the list sorted by start, after the blocks whose start is
\* not larger (the sort is stable and blk was appended last)
RECURSIVE InsertByStart(_, _)
InsertByStart(sorted, blk) ==
    IF sorted = <<>> THEN <<blk>>
    ELSE IF Head(sorted)[1] <= blk[1]
    THEN <<Head(sorted)>> \o InsertByStart(Tail(sorted), blk)
    ELSE <<blk>> \o sorted

NoSort(fl) == fl

RECURSIVE SortByStart(_)
SortByStart(fl) ==
    IF fl = <<>> THEN <<>>
    ELSE InsertByStart(SortByStart(SubSeq(fl, 1, Len(fl) - 1)), fl[Len(fl)])

MergeNever(merged, blk) == Append(merged, blk)

\* one round of the merge loop: blk joins the last block of merged when it
\* starts where that one ends, and is appended otherwise
MergeStep(merged, blk) ==
    IF merged = <<>> THEN <<blk>>
    ELSE LET last_start == merged[Len(merged)][1]
             last_len == merged[Len(merged)][2]
         IN  IF last_start + last_len = blk[1]
             THEN [merged EXCEPT ![Len(merged)] = <<last_start, last_len + blk[2]>>]
             ELSE Append(merged, blk)

RECURSIVE MergeNeighbors(_, _)
MergeNeighbors(fl, merged) ==
    IF fl = <<>> THEN merged
    ELSE MergeNeighbors(Tail(fl), MergeStep(merged, Head(fl)))

free_block_unguarded(start, units, fl, st) ==
    LET sorted == SortByStart(Append(fl, <<start, units>>))
    IN  [free_list |-> MergeNeighbors(sorted, <<>>),
         stats |-> [st EXCEPT !.free_calls = @ + 1,
                              !.ops_free = @ + Len(sorted)]]

free_block(start, units, fl, st) ==
    IF start < 0 \/ units <= 0
    THEN [free_list |-> fl, stats |-> st]
    ELSE LET sorted == SortByStart(Append(fl, <<start, units>>))
         IN  [free_list |-> MergeNeighbors(sorted, <<>>),
              stats |-> [st EXCEPT !.free_calls = @ + 1,
                                   !.ops_free = @ + Len(sorted)]]

(***************************************************************************)
(* What a free list says about the units of memory.                        *)
(***************************************************************************)
Units(start, length) == start .. (start + length - 1)

FreeUnits(fl) == UNION {Units(fl[k][1], fl[k][2]) : k \in 1..Len(fl)}

RECURSIVE SumLengths(_)
SumLengths(fl) == IF fl = <<>> THEN 0 ELSE Head(fl)[2] + SumLengths(Tail(fl))

WellFormed(fl) ==
    /\ \A k \in 1..Len(fl) : fl[k][1] >= 0 /\ fl[k][2] >= 1
    /\ \A k \in 1..Len(fl) - 1 : fl[k][1] + fl[k][2] < fl[k + 1][1]

\* the number of units a request of b bytes needs: the least n with
\* n * unit_size >= b
CeilUnits(b) == CHOOSE n \in 0..b : n * unit_size >= b /\ (n - 1) * unit_size < b

Fitting(fl, units_needed) ==
    {k \in 0..Len(fl) - 1 : At(fl, k)[2] >= units_needed}

\* the list of the maximal runs of the set S of units, from unit u upwards
RECURSIVE RunsOf(_, _)
RunsOf(S, u) ==
    IF u >= total_units THEN <<>>
    ELSE IF u \notin S THEN RunsOf(S, u + 1)
    ELSE LET end == CHOOSE e \in u..total_units :
                        /\ \A x \in u..e - 1 : x \in S
                        /\ (e = total_units \/ e \notin S)
         IN  <<<<u, end - u>>>> \o RunsOf(S, end)

(***************************************************************************)
(* Job representation and workload.  The source draws from a seeded random *)
(* generator; the model draws from small sets, the source's ranges scaled  *)
(* down to the size of the modelled memory.                                *)
(***************************************************************************)
JobTypes == {"small", "medium", "large"}

\* the percentages of small, medium and large jobs (inputs of main)
job_pcts == <<40, 30, 30>>

\* draws of random.randint(1, 100): one for each job type
RDraws == {job_pcts[1], job_pcts[1] + job_pcts[2], 100}

JobTypeOf(r) ==
    IF r <= job_pcts[1] THEN "small"
    ELSE IF r <= job_pcts[1] + job_pcts[2] THEN "medium"
    ELSE "large"

\* draws of run_time, code_size and stack_size for a job of each type
RunTimes(jtype) ==
    CASE jtype = "small" -> {1, 2}
      [] jtype = "medium" -> {3}
      [] jtype = "large" -> {4}

CodeSizes(jtype) ==
    CASE jtype = "small" -> {3}
      [] jtype = "medium" -> {2, 3}
      [] jtype = "large" -> {5}

StackSizes(jtype) ==
    CASE jtype = "small" -> {1}
      [] jtype = "medium" -> {2, 3}
      [] jtype = "large" -> {3, 4}

\* heap elements per unit of run time: heap_total = run_time * HeapRate
HeapRate(jtype) ==
    CASE jtype = "small" -> 2
      [] jtype = "medium" -> 1
      [] jtype = "large" -> 1

\* draws of the heap element size in bytes
HeapSizes == {1, 3}

\* draws of random.randint(0, 4) for the next arrival: both ends
ArrivalJitter == {0, 4}

\* draws of random.randint(1, 3) for the duration of an I/O
IODurations == 1..3

AtLeast1(x) == IF x < 1 THEN 1 ELSE x

JobStartSwapped(jid, jtype, run_time, code_bytes, stack_bytes, heap_total, start_time, is_lost) ==
    [id |-> jid, type |-> jtype, run_total |-> run_time,
     run_left |-> run_time, code_bytes |-> code_bytes,
     stack_bytes |-> stack_bytes, heap_total |-> heap_total,
     heap_left |-> heap_total, start_time |-> run_time, code_loc |-> -1,
     stack_loc |-> -1, heap_blocks |-> <<>>, is_lost |-> is_lost]

Job(jid, jtype, run_time, code_bytes, stack_bytes, heap_total, start_time, is_lost) ==
    [id |-> jid, type |-> jtype, run_total |-> run_time,
     run_left |-> run_time, code_bytes |-> code_bytes,
     stack_bytes |-> stack_bytes, heap_total |-> heap_total,
     heap_left |-> heap_total, start_time |-> start_time, code_loc |-> -1,
     stack_loc |-> -1, heap_blocks |-> <<>>, is_lost |-> is_lost]

heap_per_tick(job) ==
    IF job.run_total <= 0 THEN 0
    ELSE LET per_tick == job.heap_total \div job.run_total
         IN  IF per_tick <= 0 THEN 1 ELSE per_tick

(***************************************************************************)
(* simulate: the state after its set-up, and the phases of one tick.       *)
(***************************************************************************)
\* the state of simulate before the loop, but for the allocator's: the
\* first arrival is drawn as jit
Constructed(jit) ==
    /\ sim_time = 0
    /\ pc = IF 0 < total_time THEN "arrival" ELSE "done"
    /\ allocated_units = 0
    /\ required_bytes_sum = 0
    /\ lost_count = 0
    /\ lost_bytes = 0
    /\ max_allocated_units = 0
    /\ alloc_fail_count = 0
    /\ jobs = <<>>
    /\ ready_queue = <<>>
    /\ active_jobs = <<>>
    /\ cpu_idle = TRUE
    /\ current_job = 0
    /\ io_queue = <<>>
    /\ io_idle = TRUE
    /\ io_job = 0
    /\ io_done_time = -1
    /\ job_type_counts = [t \in JobTypes |-> 0]
    /\ job_id_counter = 1
    /\ base_arrival = 1
    /\ next_arrival = 1 + jit
    /\ heap_k = 0
    /\ leaked = {}
    /\ leaked_code = {}
    /\ clamp_hit = FALSE
    /\ nf_probe = [past_end |-> FALSE, bad |-> FALSE]

\* the harness has made no call
NoCall ==
    [bytes |-> 0, fl |-> <<>>, stats |-> stats0, idx |-> 0, loc |-> -1,
     n |-> 0]

\* one call of simulate with free draws: the generator is not modelled
NoSeed ==
    /\ rng_seed = <<>>
    /\ rng_pos = 0
    /\ requests = <<>>
    /\ request_logs = <<>>

Init ==
    /\ algorithm_name \in Algorithms
    /\ lost_mode \in BOOLEAN
    /\ free_list = init_free_list(total_units)
    /\ stats = stats0
    /\ next_fit_index = 0
    /\ \E jit \in ArrivalJitter : Constructed(jit)
    /\ call = [bytes |-> 0, fl |-> <<>>, stats |-> stats0, idx |-> 0,
               loc |-> -1, n |-> 0]
    /\ held = <<>>
    /\ hphase = "simulate"
    /\ NoSeed

\* no job arrives in this tick
NoArrival ==
    /\ pc = "arrival"
    /\ sim_time < next_arrival
    /\ pc' = "sweep"
    /\ UNCHANGED <<allocvars, lost_mode, sim_time, acctvars, schedvars,
                   arrivalvars, heap_k, harnessvars>>

ArrivalConsumesId(jit, r, run_draw, code_draw, stack_draw) ==
    /\ pc = "arrival"
    /\ sim_time >= next_arrival
    /\ LET jtype == JobTypeOf(r)
           run_time == AtLeast1(run_draw)
           code_size == AtLeast1(code_draw)
           stack_size == AtLeast1(stack_draw)
           heap_total == run_draw * HeapRate(jtype)
           count == job_type_counts[jtype] + 1
           is_lost == lost_mode /\ count % LostEvery = 0
           c == Malloc(algorithm_name, code_size, unit_size, free_list,
                       stats, next_fit_index)
           s == Malloc(algorithm_name, stack_size, unit_size, c.free_list,
                       c.stats, c.last_index)
           code_units == round_up_units(code_size, unit_size)
           stack_units == round_up_units(stack_size, unit_size)
           job == [Job(job_id_counter, jtype, run_time, code_size,
                       stack_size, heap_total, sim_time, is_lost)
                   EXCEPT !.code_loc = c.loc, !.stack_loc = s.loc]
       IN  /\ base_arrival' = base_arrival + 3
           /\ next_arrival' = base_arrival + 3 + jit
           /\ job_type_counts' = [job_type_counts EXCEPT ![jtype] = count]
           /\ free_list' = s.free_list
           /\ stats' = s.stats
           /\ next_fit_index' = s.last_index
           /\ nf_probe' =
                  NFNoted(NFNoted(nf_probe, algorithm_name, code_size,
                                  unit_size, free_list, next_fit_index),
                          algorithm_name, stack_size, unit_size, c.free_list,
                          c.last_index)
           /\ IF c.loc # -1 /\ s.loc # -1
              THEN /\ allocated_units' =
                          allocated_units + (code_units + stack_units)
                   /\ required_bytes_sum' =
                          required_bytes_sum + (code_size + stack_size)
                   /\ max_allocated_units' =
                          IF allocated_units' > max_allocated_units
                          THEN allocated_units' ELSE max_allocated_units
                   /\ jobs' = [i \in DOMAIN jobs \cup {job_id_counter} |->
                                  IF i = job_id_counter THEN job ELSE jobs[i]]
                   /\ ready_queue' = Append(ready_queue, job_id_counter)
                   /\ active_jobs' = Append(active_jobs, job_id_counter)
                   /\ job_id_counter' = job_id_counter + 1
                   /\ UNCHANGED <<alloc_fail_count, leaked, leaked_code>>
              ELSE /\ alloc_fail_count' = alloc_fail_count + 1
                   /\ leaked' = leaked
                          \cup (IF c.loc # -1 THEN Units(c.loc, code_units)
                                ELSE {})
                          \cup (IF s.loc # -1 THEN Units(s.loc, stack_units)
                                ELSE {})
                   /\ leaked_code' = leaked_code
                          \cup (IF c.loc # -1 THEN Units(c.loc, code_units)
                                ELSE {})
                   /\ job_id_counter' = job_id_counter + 1
                   /\ UNCHANGED <<allocated_units, required_bytes_sum,
                                  max_allocated_units, jobs, ready_queue,
                                  active_jobs>>
    /\ pc' = "sweep"
    /\ UNCHANGED <<algorithm_name, lost_mode, sim_time, lost_count,
                   lost_bytes, clamp_hit, current_job, cpu_idle, io_queue,
                   io_idle, io_job, io_done_time, heap_k, harnessvars>>

\* a job arrives: the next arrival is scheduled, the job is drawn, its code
\* and then its stack are allocated, and it is accepted or rejected
Arrival(jit, r, run_draw, code_draw, stack_draw) ==
    /\ pc = "arrival"
    /\ sim_time >= next_arrival
    /\ LET jtype == JobTypeOf(r)
           run_time == AtLeast1(run_draw)
           code_size == AtLeast1(code_draw)
           stack_size == AtLeast1(stack_draw)
           heap_total == run_draw * HeapRate(jtype)
           count == job_type_counts[jtype] + 1
           is_lost == lost_mode /\ count % LostEvery = 0
           c == Malloc(algorithm_name, code_size, unit_size, free_list,
                       stats, next_fit_index)
           s == Malloc(algorithm_name, stack_size, unit_size, c.free_list,
                       c.stats, c.last_index)
           code_units == round_up_units(code_size, unit_size)
           stack_units == round_up_units(stack_size, unit_size)
           job == [Job(job_id_counter, jtype, run_time, code_size,
                       stack_size, heap_total, sim_time, is_lost)
                   EXCEPT !.code_loc = c.loc, !.stack_loc = s.loc]
       IN  /\ base_arrival' = base_arrival + 3
           /\ next_arrival' = base_arrival + 3 + jit
           /\ job_type_counts' = [job_type_counts EXCEPT ![jtype] = count]
           /\ free_list' = s.free_list
           /\ stats' = s.stats
           /\ next_fit_index' = s.last_index
           /\ nf_probe' =
                  NFNoted(NFNoted(nf_probe, algorithm_name, code_size,
                                  unit_size, free_list, next_fit_index),
                          algorithm_name, stack_size, unit_size, c.free_list,
                          c.last_index)
           /\ IF c.loc # -1 /\ s.loc # -1
              THEN /\ allocated_units' =
                          allocated_units + (code_units + stack_units)
                   /\ required_bytes_sum' =
                          required_bytes_sum + (code_size + stack_size)
                   /\ max_allocated_units' =
                          IF allocated_units' > max_allocated_units
                          THEN allocated_units' ELSE max_allocated_units
                   /\ jobs' = [i \in DOMAIN jobs \cup {job_id_counter} |->
                                  IF i = job_id_counter THEN job ELSE jobs[i]]
                   /\ ready_queue' = Append(ready_queue, job_id_counter)
                   /\ active_jobs' = Append(active_jobs, job_id_counter)
                   /\ job_id_counter' = job_id_counter + 1
                   /\ UNCHANGED <<alloc_fail_count, leaked, leaked_code>>
              ELSE /\ alloc_fail_count' = alloc_fail_count + 1
                   /\ leaked' = leaked
                          \cup (IF c.loc # -1 THEN Units(c.loc, code_units)
                                ELSE {})
                          \cup (IF s.loc # -1 THEN Units(s.loc, stack_units)
                                ELSE {})
                   /\ leaked_code' = leaked_code
                          \cup (IF c.loc # -1 THEN Units(c.loc, code_units)
                                ELSE {})
                   /\ UNCHANGED <<allocated_units, required_bytes_sum,
                                  max_allocated_units, jobs, ready_queue,
                                  active_jobs, job_id_counter>>
    /\ pc' = "sweep"
    /\ UNCHANGED <<algorithm_name, lost_mode, sim_time, lost_count,
                   lost_bytes, clamp_hit, current_job, cpu_idle, io_queue,
                   io_idle, io_job, io_done_time, heap_k, harnessvars>>

\* the counters that freeing and losing blocks update
Acct ==
    [free_list |-> free_list, stats |-> stats,
     allocated_units |-> allocated_units,
     required_bytes_sum |-> required_bytes_sum, lost_count |-> lost_count,
     lost_bytes |-> lost_bytes, clamp_hit |-> clamp_hit]

\* required_bytes_sum -= bytes, with the clamp at 0
SubRequired(a, bytes) ==
    [a EXCEPT !.required_bytes_sum =
                  IF a.required_bytes_sum - bytes < 0 THEN 0
                  ELSE a.required_bytes_sum - bytes,
              !.clamp_hit = @ \/ a.required_bytes_sum - bytes < 0]

ReleaseHeapWholeUnits(a, blk) ==
    LET r == free_block(blk.loc, blk.units, a.free_list, a.stats)
    IN  SubRequired([a EXCEPT !.free_list = r.free_list,
                              !.stats = r.stats,
                              !.allocated_units = @ - blk.units],
                    blk.units * unit_size)

ReleaseHeapKeepsCount(a, blk) ==
    LET r == free_block(blk.loc, blk.units, a.free_list, a.stats)
    IN  SubRequired([a EXCEPT !.free_list = r.free_list, !.stats = r.stats],
                    blk.bytes)

\* a heap block of a job that is not lost is freed
ReleaseHeap(a, blk) ==
    LET r == free_block(blk.loc, blk.units, a.free_list, a.stats)
    IN  SubRequired([a EXCEPT !.free_list = r.free_list,
                              !.stats = r.stats,
                              !.allocated_units = @ - blk.units],
                    blk.bytes)

LoseHeapAndFree(a, blk) ==
    LET r == ReleaseHeap(a, blk)
    IN  [r EXCEPT !.lost_count = @ + 1, !.lost_bytes = @ + blk.bytes]

\* a heap block of a lost job is counted as lost
LoseHeap(a, blk) ==
    [a EXCEPT !.lost_count = @ + 1, !.lost_bytes = @ + blk.bytes]

RECURSIVE SweepBlocksLate(_, _, _, _, _)
SweepBlocksLate(a, blocks, new_blocks, is_lost, t) ==
    IF blocks = <<>> THEN [acct |-> a, new_blocks |-> new_blocks]
    ELSE LET blk == Head(blocks)
         IN  IF t > blk.death
             THEN SweepBlocksLate(IF ~is_lost THEN ReleaseHeap(a, blk)
                                  ELSE LoseHeap(a, blk),
                                  Tail(blocks), new_blocks, is_lost, t)
             ELSE SweepBlocksLate(a, Tail(blocks), Append(new_blocks, blk),
                                  is_lost, t)

\* the sweep over the heap blocks of one job at time t: the expired ones
\* are freed or lost, the others are kept in new_blocks
RECURSIVE SweepBlocks(_, _, _, _, _)
SweepBlocks(a, blocks, new_blocks, is_lost, t) ==
    IF blocks = <<>> THEN [acct |-> a, new_blocks |-> new_blocks]
    ELSE LET blk == Head(blocks)
         IN  IF t >= blk.death
             THEN SweepBlocks(IF ~is_lost THEN ReleaseHeap(a, blk)
                              ELSE LoseHeap(a, blk),
                              Tail(blocks), new_blocks, is_lost, t)
             ELSE SweepBlocks(a, Tail(blocks), Append(new_blocks, blk),
                              is_lost, t)

\* the sweep over the jobs ids, in order
RECURSIVE SweepJobs(_, _, _, _)
SweepJobs(a, js, ids, t) ==
    IF ids = <<>> THEN [acct |-> a, jobs |-> js]
    ELSE LET id == Head(ids)
             r == SweepBlocks(a, js[id].heap_blocks, <<>>, js[id].is_lost, t)
         IN  SweepJobs(r.acct,
                       [js EXCEPT ![id].heap_blocks = r.new_blocks],
                       Tail(ids), t)

\* heap deallocation: the blocks whose lifetime expired
Sweep ==
    /\ pc = "sweep"
    /\ LET r == SweepJobs(Acct, jobs, active_jobs, sim_time)
       IN  /\ free_list' = r.acct.free_list
           /\ stats' = r.acct.stats
           /\ allocated_units' = r.acct.allocated_units
           /\ required_bytes_sum' = r.acct.required_bytes_sum
           /\ lost_count' = r.acct.lost_count
           /\ lost_bytes' = r.acct.lost_bytes
           /\ clamp_hit' = r.acct.clamp_hit
           /\ jobs' = r.jobs
    /\ pc' = "io_done"
    /\ UNCHANGED <<algorithm_name, next_fit_index, lost_mode, sim_time,
                   max_allocated_units, alloc_fail_count, leaked, leaked_code,
                   nf_probe, ready_queue, active_jobs, current_job, cpu_idle,
                   io_queue,
                   io_idle, io_job, io_done_time, arrivalvars, heap_k,
                   harnessvars>>

IOCompleteLate ==
    /\ pc = "io_done"
    /\ IF (~io_idle) /\ sim_time > io_done_time
       THEN /\ ready_queue' = Append(ready_queue, io_job)
            /\ io_job' = 0
            /\ io_idle' = TRUE
       ELSE UNCHANGED <<ready_queue, io_job, io_idle>>
    /\ pc' = "io_start"
    /\ UNCHANGED <<allocvars, lost_mode, sim_time, acctvars, jobs,
                   active_jobs, current_job, cpu_idle, io_queue,
                   io_done_time, arrivalvars, heap_k, harnessvars>>

\* I/O completion
IOComplete ==
    /\ pc = "io_done"
    /\ IF (~io_idle) /\ sim_time >= io_done_time
       THEN /\ ready_queue' = Append(ready_queue, io_job)
            /\ io_job' = 0
            /\ io_idle' = TRUE
       ELSE UNCHANGED <<ready_queue, io_job, io_idle>>
    /\ pc' = "io_start"
    /\ UNCHANGED <<allocvars, lost_mode, sim_time, acctvars, jobs,
                   active_jobs, current_job, cpu_idle, io_queue,
                   io_done_time, arrivalvars, heap_k, harnessvars>>

\* start new I/O if the device is idle; d is the draw of its duration
IOStart(d) ==
    /\ pc = "io_start"
    /\ IF io_idle /\ io_queue # <<>>
       THEN /\ io_job' = Head(io_queue)
            /\ io_queue' = Tail(io_queue)
            /\ io_idle' = FALSE
            /\ io_done_time' = sim_time + d
       ELSE UNCHANGED <<io_job, io_queue, io_idle, io_done_time>>
    /\ pc' = "dispatch"
    /\ UNCHANGED <<allocvars, lost_mode, sim_time, acctvars, jobs,
                   ready_queue, active_jobs, current_job, cpu_idle,
                   arrivalvars, heap_k, harnessvars>>

DispatchLast ==
    /\ pc = "dispatch"
    /\ IF current_job = 0 /\ ready_queue # <<>>
       THEN /\ current_job' = ready_queue[Len(ready_queue)]
            /\ ready_queue' = SubSeq(ready_queue, 1, Len(ready_queue) - 1)
            /\ cpu_idle' = FALSE
       ELSE UNCHANGED <<current_job, ready_queue, cpu_idle>>
    /\ pc' = "execute"
    /\ UNCHANGED <<allocvars, lost_mode, sim_time, acctvars, jobs,
                   active_jobs, io_queue, io_idle, io_job, io_done_time,
                   arrivalvars, heap_k, harnessvars>>

\* CPU dispatch
Dispatch ==
    /\ pc = "dispatch"
    /\ IF current_job = 0 /\ ready_queue # <<>>
       THEN /\ current_job' = Head(ready_queue)
            /\ ready_queue' = Tail(ready_queue)
            /\ cpu_idle' = FALSE
       ELSE UNCHANGED <<current_job, ready_queue, cpu_idle>>
    /\ pc' = "execute"
    /\ UNCHANGED <<allocvars, lost_mode, sim_time, acctvars, jobs,
                   active_jobs, io_queue, io_idle, io_job, io_done_time,
                   arrivalvars, heap_k, harnessvars>>

\* no job has the CPU
ExecIdle ==
    /\ pc = "execute"
    /\ current_job = 0
    /\ pc' = "advance"
    /\ UNCHANGED <<allocvars, lost_mode, sim_time, acctvars, schedvars,
                   arrivalvars, heap_k, harnessvars>>

ExecIORequestKeepsCpu ==
    /\ pc = "execute"
    /\ current_job # 0
    /\ jobs[current_job].run_left > 1
    /\ io_queue' = Append(io_queue, current_job)
    /\ pc' = "advance"
    /\ UNCHANGED <<allocvars, lost_mode, sim_time, acctvars, jobs,
                   ready_queue, active_jobs, current_job, cpu_idle, io_idle,
                   io_job, io_done_time, arrivalvars, heap_k, harnessvars>>

ExecIORequestCredited ==
    /\ pc = "execute"
    /\ current_job # 0
    /\ jobs[current_job].run_left > 1
    /\ io_queue' = Append(io_queue, current_job)
    /\ jobs' = [jobs EXCEPT ![current_job].run_left = @ - 1]
    /\ current_job' = 0
    /\ cpu_idle' = TRUE
    /\ pc' = "advance"
    /\ UNCHANGED <<allocvars, lost_mode, sim_time, acctvars,
                   ready_queue, active_jobs, io_idle, io_job, io_done_time,
                   arrivalvars, heap_k, harnessvars>>

\* the running job has time left and requests I/O (random.random() < 0.05)
ExecIORequest ==
    /\ pc = "execute"
    /\ current_job # 0
    /\ jobs[current_job].run_left > 1
    /\ io_queue' = Append(io_queue, current_job)
    /\ current_job' = 0
    /\ cpu_idle' = TRUE
    /\ pc' = "advance"
    /\ UNCHANGED <<allocvars, lost_mode, sim_time, acctvars, jobs,
                   ready_queue, active_jobs, io_idle, io_job, io_done_time,
                   arrivalvars, heap_k, harnessvars>>

\* the running job has time left and does CPU work: the heap loop starts
ExecWork ==
    /\ pc = "execute"
    /\ current_job # 0
    /\ jobs[current_job].run_left > 1
    /\ heap_k' = 0
    /\ pc' = "heap"
    /\ UNCHANGED <<allocvars, lost_mode, sim_time, acctvars, schedvars,
                   arrivalvars, harnessvars>>

\* the last time unit of the running job: no I/O, no heap allocation
ExecLastTick ==
    /\ pc = "execute"
    /\ current_job # 0
    /\ ~(jobs[current_job].run_left > 1)
    /\ jobs' = [jobs EXCEPT ![current_job].run_left = @ - 1]
    /\ pc' = "complete"
    /\ UNCHANGED <<allocvars, lost_mode, sim_time, acctvars, ready_queue,
                   active_jobs, current_job, cpu_idle, io_queue, io_idle,
                   io_job, io_done_time, arrivalvars, heap_k, harnessvars>>

\* one round of the heap loop: a heap element of heap_size bytes with a
\* lifetime drawn from 1..run_left is allocated, or the allocation fails
HeapAlloc(size_draw, life_draw) ==
    /\ pc = "heap"
    /\ heap_k < heap_per_tick(jobs[current_job])
    /\ ~(jobs[current_job].heap_left <= 0)
    /\ life_draw \in 1..AtLeast1(jobs[current_job].run_left)
    /\ LET heap_size == AtLeast1(size_draw)
           life == IF jobs[current_job].run_left > 0 THEN life_draw ELSE 1
           death_time == sim_time + life
           m == Malloc(algorithm_name, heap_size, unit_size, free_list,
                       stats, next_fit_index)
           units == round_up_units(heap_size, unit_size)
       IN  /\ free_list' = m.free_list
           /\ stats' = m.stats
           /\ next_fit_index' = m.last_index
           /\ nf_probe' = NFNoted(nf_probe, algorithm_name, heap_size,
                                  unit_size, free_list, next_fit_index)
           /\ IF m.loc # -1
              THEN /\ jobs' = [jobs EXCEPT
                          ![current_job].heap_blocks =
                              Append(@, [loc |-> m.loc, units |-> units,
                                         death |-> death_time,
                                         bytes |-> heap_size]),
                          ![current_job].heap_left = @ - 1]
                   /\ allocated_units' = allocated_units + units
                   /\ required_bytes_sum' = required_bytes_sum + heap_size
                   /\ max_allocated_units' =
                          IF allocated_units' > max_allocated_units
                          THEN allocated_units' ELSE max_allocated_units
                   /\ UNCHANGED alloc_fail_count
              ELSE /\ alloc_fail_count' = alloc_fail_count + 1
                   /\ UNCHANGED <<jobs, allocated_units, required_bytes_sum,
                                  max_allocated_units>>
    /\ heap_k' = heap_k + 1
    /\ UNCHANGED <<algorithm_name, lost_mode, sim_time, pc, lost_count,
                   lost_bytes, leaked, leaked_code, clamp_hit, ready_queue,
                   active_jobs,
                   current_job, cpu_idle, io_queue, io_idle, io_job,
                   io_done_time, arrivalvars, harnessvars>>

\* the heap loop ends and the job has run one unit of CPU time
HeapDone ==
    /\ pc = "heap"
    /\ \/ ~(heap_k < heap_per_tick(jobs[current_job]))
       \/ jobs[current_job].heap_left <= 0
    /\ jobs' = [jobs EXCEPT ![current_job].run_left = @ - 1]
    /\ heap_k' = 0
    /\ pc' = "complete"
    /\ UNCHANGED <<allocvars, lost_mode, sim_time, acctvars, ready_queue,
                   active_jobs, current_job, cpu_idle, io_queue, io_idle,
                   io_job, io_done_time, arrivalvars, harnessvars>>

RECURSIVE ReleaseAllButLast(_, _)
ReleaseAllButLast(a, blocks) ==
    IF Len(blocks) <= 1 THEN a
    ELSE ReleaseAllButLast(ReleaseHeap(a, Head(blocks)), Tail(blocks))

\* the remaining heap blocks of a finished job are freed, in order
RECURSIVE ReleaseAll(_, _)
ReleaseAll(a, blocks) ==
    IF blocks = <<>> THEN a
    ELSE ReleaseAll(ReleaseHeap(a, Head(blocks)), Tail(blocks))

\* the remaining heap blocks of a finished lost job are counted as lost
RECURSIVE LoseAll(_, _)
LoseAll(a, blocks) ==
    IF blocks = <<>> THEN a
    ELSE LoseAll(LoseHeap(a, Head(blocks)), Tail(blocks))

ReleaseCodeOnly(a, job) ==
    LET code_units == round_up_units(job.code_bytes, unit_size)
        stack_units == round_up_units(job.stack_bytes, unit_size)
        f2 == free_block(job.code_loc, code_units, a.free_list, a.stats)
    IN  SubRequired([a EXCEPT !.free_list = f2.free_list,
                              !.stats = f2.stats,
                              !.allocated_units =
                                  @ - (code_units + stack_units)],
                    job.code_bytes + job.stack_bytes)

\* stack and code of a finished job are freed
ReleaseCodeStack(a, job) ==
    LET code_units == round_up_units(job.code_bytes, unit_size)
        stack_units == round_up_units(job.stack_bytes, unit_size)
        f1 == free_block(job.stack_loc, stack_units, a.free_list, a.stats)
        f2 == free_block(job.code_loc, code_units, f1.free_list, f1.stats)
    IN  SubRequired([a EXCEPT !.free_list = f2.free_list,
                              !.stats = f2.stats,
                              !.allocated_units =
                                  @ - (code_units + stack_units)],
                    job.code_bytes + job.stack_bytes)

\* check for job completion; a finished job leaves the active list
Complete ==
    /\ pc = "complete"
    /\ IF current_job # 0 /\ jobs[current_job].run_left <= 0
       THEN LET job == jobs[current_job]
                a1 == ReleaseCodeStack(Acct, job)
                a2 == IF ~job.is_lost THEN ReleaseAll(a1, job.heap_blocks)
                      ELSE LoseAll(a1, job.heap_blocks)
            IN  /\ free_list' = a2.free_list
                /\ stats' = a2.stats
                /\ allocated_units' = a2.allocated_units
                /\ required_bytes_sum' = a2.required_bytes_sum
                /\ lost_count' = a2.lost_count
                /\ lost_bytes' = a2.lost_bytes
                /\ clamp_hit' = a2.clamp_hit
                /\ current_job' = 0
                /\ cpu_idle' = TRUE
                /\ active_jobs' =
                       SelectSeq(active_jobs, LAMBDA i : i # current_job)
                /\ jobs' = [i \in DOMAIN jobs \ {current_job} |-> jobs[i]]
       ELSE UNCHANGED <<free_list, stats, allocated_units,
                        required_bytes_sum, lost_count, lost_bytes,
                        clamp_hit, current_job, cpu_idle, active_jobs, jobs>>
    /\ pc' = "advance"
    /\ UNCHANGED <<algorithm_name, next_fit_index, lost_mode, sim_time,
                   max_allocated_units, alloc_fail_count, leaked, leaked_code,
                   nf_probe, ready_queue, io_queue, io_idle, io_job,
                   io_done_time,
                   arrivalvars, heap_k, harnessvars>>

\* advance simulation time; the loop ends at total_time
Advance ==
    /\ pc = "advance"
    /\ sim_time' = sim_time + 1
    /\ pc' = IF sim_time + 1 < total_time THEN "arrival" ELSE "done"
    /\ UNCHANGED <<allocvars, lost_mode, acctvars, schedvars, arrivalvars,
                   heap_k, harnessvars>>

Next ==
    \/ NoArrival /\ UNCHANGED seedvars
    \/ \E jit \in ArrivalJitter, r \in RDraws :
          \E run_draw \in RunTimes(JobTypeOf(r)),
             code_draw \in CodeSizes(JobTypeOf(r)),
             stack_draw \in StackSizes(JobTypeOf(r)) :
                /\ Arrival(jit, r, run_draw, code_draw, stack_draw)
                /\ UNCHANGED seedvars
    \/ Sweep /\ UNCHANGED seedvars
    \/ IOComplete /\ UNCHANGED seedvars
    \/ \E d \in IODurations : IOStart(d) /\ UNCHANGED seedvars
    \/ Dispatch /\ UNCHANGED seedvars
    \/ ExecIdle /\ UNCHANGED seedvars
    \/ ExecIORequest /\ UNCHANGED seedvars
    \/ ExecWork /\ UNCHANGED seedvars
    \/ ExecLastTick /\ UNCHANGED seedvars
    \/ \E size_draw \in HeapSizes, life_draw \in 1..total_time :
          HeapAlloc(size_draw, life_draw) /\ UNCHANGED seedvars
    \/ HeapDone /\ UNCHANGED seedvars
    \/ Complete /\ UNCHANGED seedvars
    \/ Advance /\ UNCHANGED seedvars

Spec == Init /\ [][Next]_vars

(***************************************************************************)
(* simulate under Next Fit on a memory of one unit more, the least memory  *)
(* in which the cursor leaves position 0, with a workload of jobs of few   *)
(* bytes that run for three ticks.                                         *)
(***************************************************************************)
NFUnits == total_units + 1

\* draws of run_time, code_size and stack_size of the jobs of this workload
NFRunTimes == {3}
NFCodeSizes == {2}
NFStackSizes == {1}

NFInit ==
    /\ algorithm_name = "NF"
    /\ lost_mode \in BOOLEAN
    /\ free_list = init_free_list(NFUnits)
    /\ stats = stats0
    /\ next_fit_index = 0
    /\ \E jit \in ArrivalJitter : Constructed(jit)
    /\ call = NoCall
    /\ held = <<>>
    /\ hphase = "simulate"
    /\ NoSeed

NFNext ==
    \/ NoArrival /\ UNCHANGED seedvars
    \/ \E jit \in ArrivalJitter, r \in RDraws :
          \E run_draw \in NFRunTimes, code_draw \in NFCodeSizes,
             stack_draw \in NFStackSizes :
                /\ Arrival(jit, r, run_draw, code_draw, stack_draw)
                /\ UNCHANGED seedvars
    \/ Sweep /\ UNCHANGED seedvars
    \/ IOComplete /\ UNCHANGED seedvars
    \/ \E d \in IODurations : IOStart(d) /\ UNCHANGED seedvars
    \/ Dispatch /\ UNCHANGED seedvars
    \/ ExecIdle /\ UNCHANGED seedvars
    \/ ExecIORequest /\ UNCHANGED seedvars
    \/ ExecWork /\ UNCHANGED seedvars
    \/ ExecLastTick /\ UNCHANGED seedvars
    \/ \E size_draw \in HeapSizes, life_draw \in 1..total_time :
          HeapAlloc(size_draw, life_draw) /\ UNCHANGED seedvars
    \/ HeapDone /\ UNCHANGED seedvars
    \/ Complete /\ UNCHANGED seedvars
    \/ Advance /\ UNCHANGED seedvars

NFSpec == NFInit /\ [][NFNext]_vars

(***************************************************************************)
(* The arrival schedule of simulate: of each tick of the loop, the         *)
(* statements that read or write base_arrival and next_arrival, which no   *)
(* other statement of the loop does.  One step is one tick.                *)
(***************************************************************************)
\* draws of random.randint(0, 4) for the next arrival: all of them
JitterDraws == 0..4

ScheduleInit ==
    /\ algorithm_name = "FF"
    /\ lost_mode = FALSE
    /\ free_list = init_free_list(total_units)
    /\ stats = stats0
    /\ next_fit_index = 0
    /\ \E jit \in JitterDraws : Constructed(jit)
    /\ call = NoCall
    /\ held = <<>>
    /\ hphase = "schedule"
    /\ NoSeed

\* a tick in which no arrival is due
ScheduleWait ==
    /\ hphase = "schedule"
    /\ sim_time < ScheduleTime
    /\ sim_time < next_arrival
    /\ sim_time' = sim_time + 1
    /\ UNCHANGED <<allocvars, lost_mode, pc, acctvars, schedvars,
                   arrivalvars, heap_k, seedvars, harnessvars>>

ScheduleArriveDrifting(jit) ==
    /\ hphase = "schedule"
    /\ sim_time < ScheduleTime
    /\ sim_time >= next_arrival
    /\ base_arrival' = base_arrival + 3
    /\ next_arrival' = sim_time + 3 + jit
    /\ sim_time' = sim_time + 1
    /\ UNCHANGED <<allocvars, lost_mode, pc, acctvars, schedvars,
                   job_type_counts, job_id_counter, heap_k, seedvars,
                   harnessvars>>

\* a tick in which an arrival is due: the next one is scheduled
ScheduleArrive(jit) ==
    /\ hphase = "schedule"
    /\ sim_time < ScheduleTime
    /\ sim_time >= next_arrival
    /\ base_arrival' = base_arrival + 3
    /\ next_arrival' = base_arrival + 3 + jit
    /\ sim_time' = sim_time + 1
    /\ UNCHANGED <<allocvars, lost_mode, pc, acctvars, schedvars,
                   job_type_counts, job_id_counter, heap_k, seedvars,
                   harnessvars>>

ScheduleNext ==
    \/ ScheduleWait
    \/ \E jit \in JitterDraws : ScheduleArrive(jit)

ScheduleSpec == ScheduleInit /\ [][ScheduleNext]_vars

(***************************************************************************)
(* main: simulate is called for FF, NF, BF and WF in turn on the same      *)
(* inputs, and each call starts with random.seed(10).  The generator is    *)
(* modelled as a seed of SeedLen raw values that it yields in turn; a draw *)
(* from a range takes the next raw value and maps it into the range.       *)
(***************************************************************************)
Raw == 0..RawMax

\* the raw value of the k-th draw from now
RawAt(k) == rng_seed[((rng_pos + k) % SeedLen) + 1]

\* what a draw from the range S yields on the raw value raw
Pick(S, raw) ==
    CHOOSE x \in S : Cardinality({y \in S : y < x}) = raw % Cardinality(S)

\* random.random() < 0.05 on the raw value raw
IORequested(raw) == raw % (RawMax + 1) = RawMax

Drawn(n) ==
    /\ rng_pos' = (rng_pos + n) % SeedLen
    /\ UNCHANGED <<rng_seed, request_logs>>

\* the set-up of simulate when main calls it again: Constructed, of the
\* next state
Reconstructed(jit) ==
    /\ sim_time' = 0
    /\ pc' = IF 0 < total_time THEN "arrival" ELSE "done"
    /\ allocated_units' = 0
    /\ required_bytes_sum' = 0
    /\ lost_count' = 0
    /\ lost_bytes' = 0
    /\ max_allocated_units' = 0
    /\ alloc_fail_count' = 0
    /\ jobs' = <<>>
    /\ ready_queue' = <<>>
    /\ active_jobs' = <<>>
    /\ cpu_idle' = TRUE
    /\ current_job' = 0
    /\ io_queue' = <<>>
    /\ io_idle' = TRUE
    /\ io_job' = 0
    /\ io_done_time' = -1
    /\ job_type_counts' = [t \in JobTypes |-> 0]
    /\ job_id_counter' = 1
    /\ base_arrival' = 1
    /\ next_arrival' = 1 + jit
    /\ heap_k' = 0
    /\ leaked' = {}
    /\ leaked_code' = {}
    /\ clamp_hit' = FALSE
    /\ nf_probe' = [past_end |-> FALSE, bad |-> FALSE]

\* the order in which main calls simulate
AlgorithmAfter(alg) ==
    CASE alg = "FF" -> "NF"
      [] alg = "NF" -> "BF"
      [] alg = "BF" -> "WF"

MainInit ==
    /\ algorithm_name = "FF"
    /\ lost_mode \in BOOLEAN
    /\ rng_seed \in [1..SeedLen -> Raw]
    /\ rng_pos = 1
    /\ requests = <<>>
    /\ request_logs = <<>>
    /\ free_list = init_free_list(total_units)
    /\ stats = stats0
    /\ next_fit_index = 0
    /\ Constructed(Pick(ArrivalJitter, rng_seed[1]))
    /\ call = NoCall
    /\ held = <<>>
    /\ hphase = "main"

SeededArrival ==
    LET r == Pick(RDraws, RawAt(1))
        jtype == JobTypeOf(r)
        code_draw == Pick(CodeSizes(jtype), RawAt(3))
        stack_draw == Pick(StackSizes(jtype), RawAt(4))
    IN  /\ Arrival(Pick(ArrivalJitter, RawAt(0)), r,
                   Pick(RunTimes(jtype), RawAt(2)), code_draw, stack_draw)
        /\ requests' = requests \o
               << <<job_id_counter, "code", AtLeast1(code_draw)>>,
                  <<job_id_counter, "stack", AtLeast1(stack_draw)>> >>
        /\ Drawn(5)

SeededIOStart ==
    /\ IOStart(Pick(IODurations, RawAt(0)))
    /\ Drawn(IF io_idle /\ io_queue # <<>> THEN 1 ELSE 0)
    /\ UNCHANGED requests

SeededExecIORequest ==
    /\ ExecIORequest
    /\ IORequested(RawAt(0))
    /\ Drawn(1)
    /\ UNCHANGED requests

SeededExecWork ==
    /\ ExecWork
    /\ ~IORequested(RawAt(0))
    /\ Drawn(1)
    /\ UNCHANGED requests

SeededHeapAlloc ==
    LET size_draw == Pick(HeapSizes, RawAt(0))
        life_draw == Pick(1..AtLeast1(jobs[current_job].run_left), RawAt(1))
    IN  /\ HeapAlloc(size_draw, life_draw)
        /\ requests' =
               Append(requests, <<current_job, "heap", AtLeast1(size_draw)>>)
        /\ Drawn(2)

\* simulate returns and main calls it for the next algorithm
NextSimulate ==
    /\ hphase = "main"
    /\ pc = "done"
    /\ algorithm_name # "WF"
    /\ algorithm_name' = AlgorithmAfter(algorithm_name)
    /\ request_logs' = Append(request_logs, requests)
    /\ requests' = <<>>
    /\ rng_pos' = 1
    /\ free_list' = init_free_list(total_units)
    /\ stats' = stats0
    /\ next_fit_index' = 0
    /\ Reconstructed(Pick(ArrivalJitter, rng_seed[1]))
    /\ UNCHANGED <<lost_mode, rng_seed, harnessvars>>

\* the last simulate returns
LastSimulate ==
    /\ hphase = "main"
    /\ pc = "done"
    /\ algorithm_name = "WF"
    /\ request_logs' = Append(request_logs, requests)
    /\ hphase' = "finished"
    /\ UNCHANGED <<allocvars, lost_mode, sim_time, pc, acctvars, schedvars,
                   arrivalvars, heap_k, rng_seed, rng_pos, requests, call,
                   held>>

MainNext ==
    \/ NoArrival /\ UNCHANGED seedvars
    \/ SeededArrival
    \/ Sweep /\ UNCHANGED seedvars
    \/ IOComplete /\ UNCHANGED seedvars
    \/ SeededIOStart
    \/ Dispatch /\ UNCHANGED seedvars
    \/ ExecIdle /\ UNCHANGED seedvars
    \/ SeededExecIORequest
    \/ SeededExecWork
    \/ ExecLastTick /\ UNCHANGED seedvars
    \/ SeededHeapAlloc
    \/ HeapDone /\ UNCHANGED seedvars
    \/ Complete /\ UNCHANGED seedvars
    \/ Advance /\ UNCHANGED seedvars
    \/ NextSimulate
    \/ LastSimulate

MainSpec == MainInit /\ [][MainNext]_vars

(***************************************************************************)
(* Allocator harness: one policy's malloc and free_block applied to every  *)
(* well-formed free list over total_units units.                           *)
(***************************************************************************)
AllocInit ==
    /\ algorithm_name \in Algorithms
    /\ lost_mode = FALSE
    /\ Constructed(0)
    /\ \E S \in SUBSET (0..total_units - 1) : free_list = RunsOf(S, 0)
    /\ next_fit_index \in 0..MaxCursor
    /\ stats = stats0
    /\ call = NoCall
    /\ held = <<>>
    /\ hphase = "ready"
    /\ NoSeed

\* one call of malloc for b bytes
HMalloc(b) ==
    /\ call.n < MaxCalls
    /\ LET r == Malloc(algorithm_name, b, unit_size, free_list, stats,
                       next_fit_index)
       IN  /\ free_list' = r.free_list
           /\ stats' = r.stats
           /\ next_fit_index' = r.last_index
           /\ call' = [bytes |-> b, fl |-> free_list, stats |-> stats,
                       idx |-> next_fit_index, loc |-> r.loc,
                       n |-> call.n + 1]
    /\ hphase' = "called"
    /\ UNCHANGED <<algorithm_name, held, simvars>>

\* free_block of the block the last malloc returned, right after it
HFreeBack ==
    /\ hphase = "called"
    /\ call.loc # -1
    /\ LET r == free_block(call.loc, round_up_units(call.bytes, unit_size),
                           free_list, stats)
       IN  /\ free_list' = r.free_list
           /\ stats' = r.stats
    /\ hphase' = "freed"
    /\ UNCHANGED <<algorithm_name, next_fit_index, call, held, simvars>>

\* one call of free_block with a start below 0 or with no units
HFreeDegenerate(start, units) ==
    /\ hphase \in {"ready", "called", "freed"}
    /\ start < 0 \/ units <= 0
    /\ LET r == free_block(start, units, free_list, stats)
       IN  /\ free_list' = r.free_list
           /\ stats' = r.stats
    /\ call' = [call EXCEPT !.fl = free_list, !.stats = stats,
                            !.idx = next_fit_index]
    /\ hphase' = "nofree"
    /\ UNCHANGED <<algorithm_name, next_fit_index, held, simvars>>

AllocNext ==
    \/ \E b \in -1..MaxRequest : HMalloc(b)
    \/ HFreeBack
    \/ \E start \in -1..0, units \in -1..1 : HFreeDegenerate(start, units)

AllocSpec == AllocInit /\ [][AllocNext]_vars

(***************************************************************************)
(* Reverse-release harness: from the initial free list, successful mallocs *)
(* of one policy, then free_block of every block, last allocated first.    *)
(***************************************************************************)
RevInit ==
    /\ algorithm_name \in Algorithms
    /\ lost_mode = FALSE
    /\ Constructed(0)
    /\ free_list = init_free_list(total_units)
    /\ next_fit_index = 0
    /\ stats = stats0
    /\ call = NoCall
    /\ held = <<>>
    /\ hphase = "alloc"
    /\ NoSeed

RevMalloc(b) ==
    /\ hphase = "alloc"
    /\ LET r == Malloc(algorithm_name, b, unit_size, free_list, stats,
                       next_fit_index)
       IN  /\ r.loc # -1
           /\ free_list' = r.free_list
           /\ stats' = r.stats
           /\ next_fit_index' = r.last_index
           /\ held' = Append(held, <<r.loc, round_up_units(b, unit_size)>>)
    /\ UNCHANGED <<algorithm_name, call, hphase, simvars>>

RevTurn ==
    /\ hphase = "alloc"
    /\ hphase' = "release"
    /\ UNCHANGED <<allocvars, call, held, simvars>>

RevFree ==
    /\ hphase = "release"
    /\ held # <<>>
    /\ LET blk == held[Len(held)]
           r == free_block(blk[1], blk[2], free_list, stats)
       IN  /\ free_list' = r.free_list
           /\ stats' = r.stats
    /\ held' = SubSeq(held, 1, Len(held) - 1)
    /\ UNCHANGED <<algorithm_name, next_fit_index, call, hphase, simvars>>

RevNext ==
    \/ \E b \in 1..MaxRequest : RevMalloc(b)
    \/ RevTurn
    \/ RevFree

RevSpec == RevInit /\ [][RevNext]_vars

(***************************************************************************)
(* Claims about simulate.                                                  *)
(***************************************************************************)
\* a tick of the loop has ended: the loop stands before the next tick or
\* has left the loop
TickEnd == hphase = "simulate" /\ pc \in {"arrival", "done"} /\ sim_time > 0

\* a job holds the CPU in this tick: it was dispatched in it or before it,
\* and executes in it
Executing ==
    /\ hphase = "simulate"
    /\ pc \in {"execute", "heap", "complete"}
    /\ current_job # 0

ArrivalStep ==
    /\ hphase = "simulate"
    /\ pc = "arrival"
    /\ pc' = "sweep"
    /\ sim_time >= next_arrival
RejectedStep == ArrivalStep /\ stats'.alloc_fail > stats.alloc_fail
AcceptedStep == ArrivalStep /\ stats'.alloc_fail = stats.alloc_fail

\* C13: an arrival whose code or stack allocation fails changes neither
\* ready_queue nor active_jobs nor job_id_counter, adds exactly 1 to
\* alloc_fail_count and leaves allocated_units, required_bytes_sum and
\* max_allocated_units unchanged; an accepted arrival gets the id
\* job_id_counter, which then grows by 1, and nothing else changes
\* job_id_counter, which starts at 1: accepted jobs get the ids 1, 2, 3, ...
C13_RejectedArrival ==
    /\ job_id_counter = 1
    /\ [][/\ RejectedStep =>
                /\ ready_queue' = ready_queue
                /\ active_jobs' = active_jobs
                /\ jobs' = jobs
                /\ job_id_counter' = job_id_counter
                /\ alloc_fail_count' = alloc_fail_count + 1
                /\ allocated_units' = allocated_units
                /\ required_bytes_sum' = required_bytes_sum
                /\ max_allocated_units' = max_allocated_units
          /\ AcceptedStep =>
                /\ job_id_counter \notin DOMAIN jobs
                /\ jobs'[job_id_counter].id = job_id_counter
                /\ ready_queue' = Append(ready_queue, job_id_counter)
                /\ active_jobs' = Append(active_jobs, job_id_counter)
                /\ job_id_counter' = job_id_counter + 1
                /\ alloc_fail_count' = alloc_fail_count
          /\ job_id_counter' # job_id_counter => AcceptedStep]_vars

\* the second arrival of a run was rejected: two jobs were drawn, one id
\* was given out
C13_Witness ==
    /\ hphase = "simulate"
    /\ pc = "sweep"
    /\ job_type_counts["small"] + job_type_counts["medium"]
          + job_type_counts["large"] = 2
    /\ job_id_counter = 2
    /\ stats.alloc_fail >= 1
    /\ leaked = {}

\* C14: when on arrival the code allocation succeeds and the stack
\* allocation fails, the units reserved for the code are not in the free
\* list after that step nor in any later state of the run; with 4 units of
\* 8 bytes, code and stack of 20 bytes leave the free list at [(3,1)].
C14_CodeLeakNeverFreed ==
    /\ \A alg \in Algorithms :
          LET c == Malloc(alg, 20, 8, init_free_list(4), stats0, 0)
              st == Malloc(alg, 20, 8, c.free_list, c.stats, c.last_index)
          IN  c.loc = 0 /\ st.loc = -1 /\ st.free_list = << <<3, 1>> >>
    /\ hphase = "simulate" => leaked_code \cap FreeUnits(free_list) = {}

\* the run has ended with units leaked for a code, after the jobs around
\* them were completed and all their memory was freed
C14_Witness ==
    /\ hphase = "simulate"
    /\ pc = "done"
    /\ leaked_code # {}
    /\ active_jobs = <<>>
    /\ stats.free_calls >= 4
    /\ FreeUnits(free_list) = (0..total_units - 1) \ leaked_code

\* C15: after every tick the bytes the jobs asked for are at most the bytes
\* of the units allocated: required_bytes_sum <= allocated_units * unit_size.
C15_RequiredWithinAllocated ==
    TickEnd => required_bytes_sum <= allocated_units * unit_size

\* a tick has ended with internal fragmentation, after blocks were freed
\* and lost
C15_Witness ==
    /\ TickEnd
    /\ lost_mode
    /\ required_bytes_sum > 0
    /\ required_bytes_sum < allocated_units * unit_size
    /\ lost_count >= 1
    /\ stats.free_calls >= 2
    /\ Len(active_jobs) >= 1

\* the heap blocks a job holds, and those of them whose death has come
BlocksOf(js, id) ==
    {js[id].heap_blocks[k] : k \in 1..Len(js[id].heap_blocks)}
Expired(id) ==
    SelectSeq(jobs[id].heap_blocks, LAMBDA blk : blk.death <= sim_time)

RECURSIVE SumUnits(_)
SumUnits(blocks) ==
    IF blocks = <<>> THEN 0 ELSE Head(blocks).units + SumUnits(Tail(blocks))

RECURSIVE SumBytes(_)
SumBytes(blocks) ==
    IF blocks = <<>> THEN 0 ELSE Head(blocks).bytes + SumBytes(Tail(blocks))

\* over the jobs ids that are lost (lost = TRUE) or not (lost = FALSE): the
\* units, the bytes and the number of their expired blocks
RECURSIVE ExpiredUnits(_, _)
ExpiredUnits(ids, lost) ==
    IF ids = <<>> THEN 0
    ELSE (IF jobs[Head(ids)].is_lost = lost
          THEN SumUnits(Expired(Head(ids))) ELSE 0)
         + ExpiredUnits(Tail(ids), lost)

RECURSIVE ExpiredBytes(_, _)
ExpiredBytes(ids, lost) ==
    IF ids = <<>> THEN 0
    ELSE (IF jobs[Head(ids)].is_lost = lost
          THEN SumBytes(Expired(Head(ids))) ELSE 0)
         + ExpiredBytes(Tail(ids), lost)

RECURSIVE ExpiredCount(_, _)
ExpiredCount(ids, lost) ==
    IF ids = <<>> THEN 0
    ELSE (IF jobs[Head(ids)].is_lost = lost
          THEN Len(Expired(Head(ids))) ELSE 0)
         + ExpiredCount(Tail(ids), lost)

\* the heap-lifetime sweep of a tick
SweepStep == hphase = "simulate" /\ pc = "sweep" /\ pc' = "io_done"

\* C17: a heap block of a job that is not lost is returned to the free
\* list at the sweep of the tick equal to its death, or before it when the
\* job completes: no outstanding block has a death before the tick of the
\* sweep, the sweep returns every block whose death is this tick to the
\* free list, takes their units from allocated_units and, when no lost job
\* has such a block, leaves lost_count unchanged; a block that a job no
\* longer holds is in the free list; and from the sweep of a tick until
\* sim_time advances every outstanding heap block has death > sim_time.
C17_HeapBlockExpiry ==
    /\ [](hphase = "simulate" =>
            \A id \in DOMAIN jobs : \A blk \in BlocksOf(jobs, id) :
               /\ pc \in {"arrival", "sweep", "done"} => blk.death >= sim_time
               /\ pc \notin {"arrival", "sweep", "done"}
                     => blk.death > sim_time)
    /\ [][/\ hphase = "simulate" =>
                \A id \in DOMAIN jobs : \A blk \in BlocksOf(jobs, id) :
                   (~jobs[id].is_lost
                      /\ (id \notin DOMAIN jobs'
                             \/ blk \notin BlocksOf(jobs', id)))
                   => Units(blk.loc, blk.units)
                         \subseteq FreeUnits(free_list')
          /\ SweepStep =>
                /\ \A id \in DOMAIN jobs :
                      BlocksOf(jobs', id) =
                         {blk \in BlocksOf(jobs, id) : blk.death > sim_time}
                /\ allocated_units' =
                      allocated_units - ExpiredUnits(active_jobs, FALSE)
                /\ ExpiredCount(active_jobs, TRUE) = 0
                      => lost_count' = lost_count]_vars

\* the sweep has just freed the one block that was freed so far, and its
\* job still holds another block
C17_Witness ==
    /\ hphase = "simulate"
    /\ pc = "io_done"
    /\ ~lost_mode
    /\ stats.free_calls = 1
    /\ lost_count = 0
    /\ \E id \in DOMAIN jobs : jobs[id].heap_blocks # <<>>

\* the completion step of a tick in which the running job has finished
FinishStep ==
    /\ hphase = "simulate"
    /\ pc = "complete"
    /\ pc' = "advance"
    /\ current_job # 0
    /\ jobs[current_job].run_left <= 0

\* the units of the code and of the stack of job
CodeStackUnits(job) ==
    Units(job.code_loc, CeilUnits(job.code_bytes))
       \cup Units(job.stack_loc, CeilUnits(job.stack_bytes))

\* the units of the expired blocks of the jobs that are not lost
ExpiredFreed ==
    UNION {Units(blk.loc, blk.units) :
              blk \in UNION {{b \in BlocksOf(jobs, id) : b.death <= sim_time} :
                                id \in {i \in DOMAIN jobs : ~jobs[i].is_lost}}}

\* C18: heap blocks of a lost job are never passed to free_block.  The
\* sweep calls free_block once for each expired block of a job that is not
\* lost and frees those units only; each expired block of a lost job adds 1
\* to lost_count and its bytes to lost_bytes, changes neither the free
\* list nor allocated_units nor required_bytes_sum, and leaves the job.
\* The completion of a lost job calls free_block for its stack and code
\* only and counts each outstanding block the same way.  No other step
\* changes lost_count or lost_bytes: each lost block is counted once.
C18_LostBlocksNeverFreed ==
    [][/\ SweepStep =>
            /\ stats'.free_calls =
                  stats.free_calls + ExpiredCount(active_jobs, FALSE)
            /\ FreeUnits(free_list') = FreeUnits(free_list) \cup ExpiredFreed
            /\ allocated_units' =
                  allocated_units - ExpiredUnits(active_jobs, FALSE)
            /\ required_bytes_sum' =
                  required_bytes_sum - ExpiredBytes(active_jobs, FALSE)
            /\ lost_count' = lost_count + ExpiredCount(active_jobs, TRUE)
            /\ lost_bytes' = lost_bytes + ExpiredBytes(active_jobs, TRUE)
            /\ \A id \in DOMAIN jobs :
                  BlocksOf(jobs', id) =
                     {blk \in BlocksOf(jobs, id) : blk.death > sim_time}
       /\ (FinishStep /\ jobs[current_job].is_lost) =>
            LET job == jobs[current_job]
            IN  /\ stats'.free_calls = stats.free_calls + 2
                /\ FreeUnits(free_list') =
                      FreeUnits(free_list) \cup CodeStackUnits(job)
                /\ allocated_units' =
                      allocated_units - CeilUnits(job.code_bytes)
                         - CeilUnits(job.stack_bytes)
                /\ required_bytes_sum' =
                      required_bytes_sum - job.code_bytes - job.stack_bytes
                /\ lost_count' = lost_count + Len(job.heap_blocks)
                /\ lost_bytes' = lost_bytes + SumBytes(job.heap_blocks)
                /\ current_job \notin DOMAIN jobs'
       /\ (FinishStep /\ ~jobs[current_job].is_lost) =>
            lost_count' = lost_count /\ lost_bytes' = lost_bytes
       /\ (lost_count' # lost_count \/ lost_bytes' # lost_bytes) =>
            SweepStep \/ FinishStep]_vars

\* the run has ended, blocks of lost jobs were counted, no job is left,
\* and the units of the lost blocks are still not free
C18_Witness ==
    /\ hphase = "simulate"
    /\ pc = "done"
    /\ lost_mode
    /\ lost_count >= 3
    /\ active_jobs = <<>>
    /\ leaked = {}
    /\ SumLengths(free_list) < total_units
    /\ SumLengths(free_list) + allocated_units = total_units

Range(seq) == {seq[k] : k \in 1..Len(seq)}

\* C19: a job has run_left <= 0 only between the execution and the
\* completion step of one tick; that completion step returns the units of
\* its stack, of its code and, when it is not lost, of all its outstanding
\* heap blocks to the free list, and nothing else, takes exactly their
\* number from allocated_units, and leaves the job in none of active_jobs,
\* ready_queue, io_queue, io_job and current_job.
C19_Completion ==
    /\ [](hphase = "simulate" =>
            \A id \in DOMAIN jobs :
               jobs[id].run_left <= 0 => pc = "complete" /\ current_job = id)
    /\ [][FinishStep =>
            LET job == jobs[current_job]
                heap == IF job.is_lost THEN <<>> ELSE job.heap_blocks
            IN  /\ FreeUnits(free_list') =
                      FreeUnits(free_list) \cup CodeStackUnits(job)
                         \cup UNION {Units(blk.loc, blk.units) :
                                        blk \in Range(heap)}
                /\ CodeStackUnits(job) \cap FreeUnits(free_list) = {}
                /\ allocated_units' =
                      allocated_units - CeilUnits(job.code_bytes)
                         - CeilUnits(job.stack_bytes) - SumUnits(heap)
                /\ job.id \notin Range(active_jobs')
                /\ job.id \notin Range(ready_queue')
                /\ job.id \notin Range(io_queue')
                /\ io_job' # job.id
                /\ current_job' = 0]_vars

\* the first job of a run without lost objects has allocated heap and has
\* completed: its memory is free again
C19_Witness ==
    /\ hphase = "simulate"
    /\ pc = "advance"
    /\ ~lost_mode
    /\ job_id_counter = 2
    /\ DOMAIN jobs = {}
    /\ stats.alloc_calls >= 4
    /\ stats.alloc_fail = 0
    /\ stats.free_calls = stats.alloc_calls
    /\ free_list = init_free_list(total_units)

\* C21: in a run of simulate under NF no mallocNF call reads a position of
\* the free list outside 0 .. len(free_list) - 1 or inspects more than
\* len(free_list) cells, also when it is entered with next_fit_index >=
\* len(free_list); and from every state of such a run a mallocNF call for
\* any request reads in that range.
C21_NextFitReadsInRange ==
    (hphase = "simulate" /\ algorithm_name = "NF") =>
        /\ ~nf_probe.bad
        /\ next_fit_index >= 0
        /\ \A b \in 1..MaxRequest :
              LET reads == NFReads(free_list, round_up_units(b, unit_size),
                                   next_fit_index, 0)
              IN  /\ Len(reads) <= Len(free_list)
                  /\ \A k \in 1..Len(reads) :
                        reads[k] \in 0..Len(free_list) - 1

\* a mallocNF call was entered with the cursor at or past the end of a free
\* list that was not empty, and the cursor is past the end again
C21_Witness ==
    /\ hphase = "simulate"
    /\ algorithm_name = "NF"
    /\ nf_probe.past_end
    /\ Len(free_list) >= 1
    /\ next_fit_index >= Len(free_list)

\* the execute phase of a tick begins with a job on the CPU; the job is
\* diverted to I/O in it
ExecuteStep == hphase = "simulate" /\ pc = "execute" /\ current_job # 0
DivertStep == ExecuteStep /\ current_job' = 0

\* C22: when the executing job has run_left > 1 and is diverted to I/O, it
\* is appended to the tail of io_queue, current_job becomes None, its
\* run_left and heap_left are unchanged and the execute phase of the tick is
\* over without a malloc and without a completion: free list,
\* allocated_units and the counters are unchanged.  A job with run_left <= 1
\* is not diverted and allocates no heap: its run_left goes down by 1 and
\* nothing else changes before the completion check.  A job enters io_queue
\* in no other way, and heap is allocated only for a job with run_left > 1.
C22_DivertOrLastTick ==
    /\ []((hphase = "simulate" /\ pc = "heap") =>
             current_job # 0 /\ jobs[current_job].run_left > 1)
    /\ [][/\ DivertStep =>
                /\ jobs[current_job].run_left > 1
                /\ io_queue' = Append(io_queue, current_job)
                /\ cpu_idle'
                /\ jobs' = jobs
                /\ pc' = "advance"
                /\ UNCHANGED <<free_list, stats, next_fit_index,
                               allocated_units, required_bytes_sum,
                               alloc_fail_count, ready_queue, active_jobs,
                               io_job, io_idle>>
          /\ (ExecuteStep /\ jobs[current_job].run_left <= 1) =>
                /\ jobs' = [jobs EXCEPT ![current_job].run_left = @ - 1]
                /\ pc' = "complete"
                /\ UNCHANGED <<current_job, io_queue, free_list, stats,
                               next_fit_index, allocated_units,
                               required_bytes_sum, alloc_fail_count>>
          /\ (hphase = "simulate" /\ Len(io_queue') > Len(io_queue)) =>
                DivertStep
          /\ (hphase = "simulate" /\ stats'.alloc_calls # stats.alloc_calls) =>
                \/ ArrivalStep
                \/ pc = "heap" /\ jobs[current_job].run_left > 1]_vars

\* a job that had allocated heap has just been diverted while another one
\* waits in the ready queue; the device is idle, so the job entered the I/O
\* queue in this tick
C22_Witness ==
    /\ hphase = "simulate"
    /\ pc = "advance"
    /\ current_job = 0
    /\ io_idle
    /\ io_queue # <<>>
    /\ jobs[io_queue[Len(io_queue)]].heap_blocks # <<>>
    /\ jobs[io_queue[Len(io_queue)]].run_left > 1
    /\ ready_queue # <<>>

\* the device takes a job; the device gives its job back
IOStartStep == hphase = "simulate" /\ io_job = 0 /\ io_job' # 0
IODoneStep == hphase = "simulate" /\ io_job # 0 /\ io_job' # io_job

C24_FifoNoPreemption ==
    [][hphase = "simulate" =>
          /\ Len(ready_queue') < Len(ready_queue) =>
                /\ pc = "dispatch"
                /\ current_job = 0
                /\ current_job' = Head(ready_queue)
                /\ ready_queue' = Tail(ready_queue)
                /\ ~cpu_idle'
          /\ Len(ready_queue') > Len(ready_queue) =>
                /\ AcceptedStep \/ IODoneStep
                /\ \E id \in DOMAIN jobs' :
                      ready_queue' = Append(ready_queue, id)
          /\ Len(ready_queue') = Len(ready_queue) =>
                ready_queue' = ready_queue
          /\ current_job' # current_job =>
                \/ /\ current_job = 0
                   /\ Len(ready_queue') < Len(ready_queue)
                \/ /\ current_job # 0
                   /\ current_job' = 0
                   /\ DivertStep \/ FinishStep]_vars

\* job 2 arrived and then the I/O of job 1 completed: job 2 was dispatched
\* and job 1 waits in the ready queue
C24_Witness ==
    /\ hphase = "simulate"
    /\ pc = "execute"
    /\ current_job = 2
    /\ ready_queue = <<1>>
    /\ jobs[2].start_time = sim_time

\* how often id occurs in seq
Count(seq, id) == Cardinality({k \in 1..Len(seq) : seq[k] = id})

\* in how many places of the scheduler the job id is
Places(id) ==
    Count(ready_queue, id) + Count(io_queue, id)
       + (IF io_job = id THEN 1 ELSE 0) + (IF current_job = id THEN 1 ELSE 0)

\* C25: at the end of every tick each job of active_jobs is in exactly one
\* of ready_queue, io_queue, io_job and current_job, and once in it; every
\* job in one of these places is in active_jobs, once, and has code_loc >= 0
\* and stack_loc >= 0; cpu_idle is (current_job is None) and io_idle is
\* (io_job is None).
C25_JobInOnePlace ==
    TickEnd =>
        /\ \A id \in Range(active_jobs) :
              /\ Places(id) = 1
              /\ Count(active_jobs, id) = 1
              /\ id \in DOMAIN jobs
        /\ \A id \in Range(ready_queue) \cup Range(io_queue)
                      \cup ({io_job, current_job} \ {0}) :
              /\ id \in Range(active_jobs)
              /\ jobs[id].code_loc >= 0
              /\ jobs[id].stack_loc >= 0
        /\ cpu_idle <=> current_job = 0
        /\ io_idle <=> io_job = 0

\* a tick has ended with one job in the I/O device and another on the CPU
C25_Witness ==
    /\ TickEnd
    /\ io_job # 0
    /\ current_job # 0
    /\ Len(active_jobs) = 2
    /\ jobs[current_job].heap_blocks # <<>>

\* the number of arrivals rejected so far: the jobs drawn that got no id
Rejected ==
    job_type_counts["small"] + job_type_counts["medium"]
       + job_type_counts["large"] - (job_id_counter - 1)

\* C26: between the phases of simulate, as long as no arrival was rejected
\* the lengths of the free runs and allocated_units add up to total_units,
\* with lost objects too; in every state they add up to at most
\* total_units, and 0 <= allocated_units <= max_allocated_units <=
\* total_units.
C26_UnitsConserved ==
    hphase = "simulate" =>
        /\ Rejected = 0 =>
              SumLengths(free_list) + allocated_units = total_units
        /\ SumLengths(free_list) + allocated_units <= total_units
        /\ 0 <= allocated_units
        /\ allocated_units <= max_allocated_units
        /\ max_allocated_units <= total_units

\* with lost objects and no rejection, the jobs are gone and the units of
\* their lost blocks are still counted as allocated
C26_Witness ==
    /\ hphase = "simulate"
    /\ lost_mode
    /\ Rejected = 0
    /\ job_id_counter = 3
    /\ active_jobs = <<>>
    /\ lost_count >= 2
    /\ allocated_units >= 2
    /\ max_allocated_units > allocated_units

\* the bytes the jobs ids asked for and still hold: code, stack and the
\* heap blocks they hold
RECURSIVE HeldBytes(_)
HeldBytes(ids) ==
    IF ids = <<>> THEN 0
    ELSE jobs[Head(ids)].code_bytes + jobs[Head(ids)].stack_bytes
            + SumBytes(jobs[Head(ids)].heap_blocks) + HeldBytes(Tail(ids))

\* C27: the clamp of required_bytes_sum to 0 never takes effect: no
\* subtraction leaves required_bytes_sum below 0, because what is
\* subtracted was added before and not yet subtracted: required_bytes_sum
\* is the bytes the active jobs hold plus the bytes of the lost blocks.
C27_ClampNeverTaken ==
    hphase = "simulate" =>
        /\ ~clamp_hit
        /\ required_bytes_sum >= 0
        /\ required_bytes_sum = HeldBytes(active_jobs) + lost_bytes

\* with lost objects, after a rejected arrival and after the jobs have
\* finished, required_bytes_sum is down to the bytes of the lost blocks
C27_Witness ==
    /\ hphase = "simulate"
    /\ lost_mode
    /\ Rejected >= 1
    /\ active_jobs = <<>>
    /\ stats.free_calls >= 2
    /\ lost_bytes > 0
    /\ required_bytes_sum = lost_bytes

\* an arrival is attempted in this tick; the number of attempts made so far
Due == pc = "arrival" /\ sim_time >= next_arrival
Attempts == (base_arrival - 1) \div 3

\* C28: an arrival is attempted at most once in a tick and never at tick
\* 0, and whatever the jitter draws the k-th attempt (k = 0, 1, ...) is made
\* at a tick t with 3k + 1 <= t <= 3k + 5: base_arrival is 1 + 3k after k
\* attempts, next_arrival is at most 4 above it, and each attempt adds
\* exactly 3 to base_arrival.
C28_ArrivalSchedule ==
    /\ [](hphase \in {"simulate", "schedule"} =>
             /\ base_arrival = 1 + 3 * Attempts
             /\ next_arrival \in base_arrival .. base_arrival + 4
             /\ Due =>
                   /\ sim_time >= 1
                   /\ 3 * Attempts + 1 <= sim_time
                   /\ sim_time <= 3 * Attempts + 5)
    /\ [][(hphase \in {"simulate", "schedule"}
             /\ <<base_arrival, next_arrival>>'
                   # <<base_arrival, next_arrival>>) =>
                /\ Due
                /\ base_arrival' = base_arrival + 3
                /\ sim_time' = sim_time + 1 \/ pc' = "sweep"]_vars

\* the attempt before this one was made as late as can be and this one was
\* drawn as early as can be: it is made two ticks after its next_arrival
C28_Witness ==
    /\ hphase = "schedule"
    /\ Due
    /\ base_arrival = 10
    /\ next_arrival = 10
    /\ sim_time = 12

\* C11: on the same inputs and the same seed, the calls of simulate for FF,
\* NF, BF and WF issue the same sequence of allocation requests (job, kind
\* and bytes), also when allocations fail.
C11_SameRequests ==
    \A i, j \in 1..Len(request_logs) : request_logs[i] = request_logs[j]

\* C1: after every tick the free list is sorted strictly ascending by start,
\* every run has length >= 1, and consecutive runs are separated by at least
\* one unit: start[i] + length[i] < start[i+1].
C1_FreeListWellFormed ==
    TickEnd =>
        /\ \A k \in 1..Len(free_list) : free_list[k][2] >= 1
        /\ \A k \in 1..Len(free_list) - 1 :
              /\ free_list[k][1] < free_list[k + 1][1]
              /\ free_list[k][1] + free_list[k][2] < free_list[k + 1][1]

C1_Witness ==
    /\ TickEnd
    /\ Len(free_list) >= 2
    /\ stats.free_calls >= 3
    /\ Len(active_jobs) >= 1

\* C2 as claimed: after every tick the lengths of the free runs and
\* allocated_units add up to total_units, also when an arrival was rejected.
C2_Original ==
    TickEnd => SumLengths(free_list) + allocated_units = total_units

\* C2 as amended: after every tick the lengths of the free runs,
\* allocated_units and the number of units that rejected arrivals took for
\* their code or stack and never returned add up to total_units.
C2_UnitsAccounted ==
    TickEnd =>
        /\ SumLengths(free_list) + allocated_units + Cardinality(leaked)
              = total_units
        /\ leaked \cap FreeUnits(free_list) = {}

C2_Witness ==
    /\ TickEnd
    /\ leaked # {}
    /\ allocated_units > 0
    /\ stats.free_calls >= 2
    /\ Len(free_list) >= 1

(***************************************************************************)
(* Claims about the allocator.                                             *)
(***************************************************************************)
Called == hphase = "called"
Succeeded == Called /\ call.loc # -1
Failed == Called /\ call.loc = -1
Need == IF call.bytes <= 0 THEN 0 ELSE CeilUnits(call.bytes)
\* the position in the list before the call of the run that starts at s
PosOfStart(fl, s) == CHOOSE k \in 0..Len(fl) - 1 : At(fl, k)[1] = s
\* the position of the run the last call allocated from
Chosen == PosOfStart(call.fl, call.loc)

\* C16: a malloc of any policy for 0 bytes or fewer returns -1, and a
\* free_block with a start below 0 or with 0 units or fewer returns; both
\* leave the free list, the Next Fit cursor and the five counters as they
\* were.
C16_DegenerateNoOp ==
    /\ (Called /\ call.bytes <= 0) =>
          /\ call.loc = -1
          /\ free_list = call.fl
          /\ next_fit_index = call.idx
          /\ stats = call.stats
    /\ hphase = "nofree" =>
          /\ free_list = call.fl
          /\ next_fit_index = call.idx
          /\ stats = call.stats

\* a degenerate free_block after a degenerate malloc that followed a
\* successful one, on a list of several runs
C16_Witness ==
    /\ hphase = "nofree"
    /\ call.n = 2
    /\ call.bytes <= 0
    /\ stats.alloc_calls = 1
    /\ stats.alloc_fail = 0
    /\ Len(free_list) >= 2

\* C20: after a successful mallocNF that allocated from the run at position
\* i with the cursor c, the cursor is i when the run was only shrunk; when
\* the run was removed it is c - 1 if i < c (and c > 0), and c if i >= c.
C20_NextFitCursor ==
    (Succeeded /\ algorithm_name = "NF") =>
        LET i == Chosen
            c == call.idx
        IN  IF Len(free_list) = Len(call.fl)
            THEN next_fit_index = i
            ELSE /\ Len(free_list) = Len(call.fl) - 1
                 /\ (i < c /\ c > 0) => next_fit_index = c - 1
                 /\ i >= c => next_fit_index = c

\* the scan wrapped around and removed a run before the cursor
C20_Witness ==
    /\ Succeeded
    /\ algorithm_name = "NF"
    /\ Len(call.fl) = 3
    /\ Len(free_list) = 2
    /\ call.idx = 2
    /\ Chosen = 0
    /\ next_fit_index = 1

\* C3: a malloc (any policy) that returns loc # -1 for b bytes returns
\* 0 <= loc < total_units; the ceil(b/unit_size) units from loc on were all
\* free before the call, none of them is free after it, and every other
\* unit is free after the call exactly if it was free before.
C3_MallocReservesExactly ==
    Succeeded =>
        /\ call.loc >= 0 /\ call.loc < total_units
        /\ Need >= 1
        /\ Units(call.loc, Need) \subseteq FreeUnits(call.fl)
        /\ FreeUnits(free_list) = FreeUnits(call.fl) \ Units(call.loc, Need)

C3_Witness ==
    /\ Succeeded
    /\ algorithm_name = "NF"
    /\ call.loc > 0
    /\ Need = 2
    /\ call.bytes % unit_size # 0
    /\ Len(free_list) < Len(call.fl)

\* C4: for a request of n >= 1 units, each policy (Next Fit for every
\* cursor) returns -1 exactly if no free run has length >= n; then the free
\* list and the cursor are unchanged and alloc_calls and alloc_fail are one
\* larger each; and alloc_fail <= alloc_calls in every state.
C4_FailIffNoFit ==
    /\ stats.alloc_fail <= stats.alloc_calls
    /\ (Called /\ Need >= 1) =>
        /\ (call.loc = -1) <=> (Fitting(call.fl, Need) = {})
        /\ (call.loc = -1) =>
              /\ free_list = call.fl
              /\ next_fit_index = call.idx
              /\ stats.alloc_calls = call.stats.alloc_calls + 1
              /\ stats.alloc_fail = call.stats.alloc_fail + 1

C4_Witness ==
    /\ Failed
    /\ Need >= 1
    /\ algorithm_name = "NF"
    /\ Len(call.fl) = 2
    /\ call.idx >= Len(call.fl)
    /\ call.n = 2
    /\ stats.alloc_fail = 1

\* C5: free_block(loc, ceil(b/unit_size)) right after a successful malloc of
\* b bytes gives back the free list the malloc started from: the same set
\* of free units and the same list of runs.
C5_RoundTrip ==
    hphase = "freed" =>
        /\ FreeUnits(free_list) = FreeUnits(call.fl)
        /\ free_list = call.fl

C5_Witness ==
    /\ hphase = "freed"
    /\ algorithm_name = "BF"
    /\ Len(call.fl) = 2
    /\ call.loc = At(call.fl, 1)[1]
    /\ Need < At(call.fl, 1)[2]

\* C6: from the initial free list, after successful mallocs of one policy
\* and free_block of every allocated block in reverse order of allocation,
\* the free list is <<0, total_units>> again.
C6_ReverseRelease ==
    (hphase = "release" /\ held = <<>>) =>
        free_list = init_free_list(total_units)

C6_Witness ==
    /\ hphase = "release"
    /\ held = <<>>
    /\ stats.alloc_calls >= 3
    /\ stats.free_calls = stats.alloc_calls
    /\ algorithm_name = "WF"

\* C7: a successful mallocFF for n units returns the smallest start among
\* the free runs of length >= n and adds to ops_malloc the 1-based position
\* of that run; a failing one adds the length of the free list.
C7_FirstFit ==
    (Called /\ algorithm_name = "FF" /\ Need >= 1) =>
        IF call.loc # -1
        THEN /\ Chosen \in Fitting(call.fl, Need)
             /\ \A k \in Fitting(call.fl, Need) : call.loc <= At(call.fl, k)[1]
             /\ stats.ops_malloc = call.stats.ops_malloc + Chosen + 1
        ELSE stats.ops_malloc = call.stats.ops_malloc + Len(call.fl)

C7_Witness ==
    /\ Succeeded
    /\ algorithm_name = "FF"
    /\ Len(call.fl) = 3
    /\ Chosen = 1
    /\ stats.ops_malloc = call.stats.ops_malloc + 2

\* C8: a successful mallocBF for n units allocates from a run whose length
\* is the least among the runs of length >= n, and among the runs of that
\* length from the one at the lowest position.
C8_BestFit ==
    (Succeeded /\ algorithm_name = "BF") =>
        /\ Chosen \in Fitting(call.fl, Need)
        /\ \A k \in Fitting(call.fl, Need) :
              /\ At(call.fl, Chosen)[2] <= At(call.fl, k)[2]
              /\ At(call.fl, k)[2] = At(call.fl, Chosen)[2] => Chosen <= k

C8_Witness ==
    /\ Succeeded
    /\ algorithm_name = "BF"
    /\ call.fl = << <<0, 2>>, <<3, 1>>, <<5, 1>> >>
    /\ call.loc = 3

\* C9: a successful mallocWF for n units allocates from a run whose length
\* is the greatest among the runs of length >= n, and among the runs of
\* that length from the one at the lowest position; on [(0,2),(4,6)] a
\* request of 2 units returns 4.
C9_WorstFit ==
    /\ mallocWF(2 * unit_size, unit_size, << <<0, 2>>, <<4, 6>> >>, stats0).loc = 4
    /\ (Succeeded /\ algorithm_name = "WF") =>
        /\ Chosen \in Fitting(call.fl, Need)
        /\ \A k \in Fitting(call.fl, Need) :
              /\ At(call.fl, Chosen)[2] >= At(call.fl, k)[2]
              /\ At(call.fl, k)[2] = At(call.fl, Chosen)[2] => Chosen <= k

C9_Witness ==
    /\ Succeeded
    /\ algorithm_name = "WF"
    /\ call.fl = << <<0, 1>>, <<2, 2>>, <<5, 1>> >>
    /\ call.loc = 2

\* C10: mallocNF called with last_index = 0 returns the location mallocFF
\* returns on the same inputs, leaves the same free list and makes the same
\* changes to alloc_calls, alloc_fail and ops_malloc.
C10_NextFitFromZeroIsFirstFit ==
    (Called /\ algorithm_name = "NF" /\ call.idx = 0) =>
        LET ff == mallocFF(call.bytes, unit_size, call.fl, call.stats)
        IN  /\ call.loc = ff.loc
            /\ free_list = ff.free_list
            /\ stats = ff.stats

C10_Witness ==
    /\ Succeeded
    /\ algorithm_name = "NF"
    /\ call.idx = 0
    /\ Chosen = 1
    /\ Len(call.fl) = 3

=============================================================================
